---- MODULE Spec2Model ----
(***************************************************************************)
(* A model of the discrete Gaussian sampler of src/samplerz.go (baseSampler,*)
(* approxexp, berexp, Samplerz) and of the helpers of src/util.go.         *)
(*                                                                         *)
(* The program computes with 256-bit integers (uint256.Int), 64-bit        *)
(* integers and binary64 floating point.  TLC's integers are 32 bits wide, *)
(* so a natural number is written here as the sequence of its base-256     *)
(* digits, least significant first, without high zero digits (zero is the  *)
(* empty sequence), and a binary64 value as sign, integer mantissa and     *)
(* binary exponent.                                                        *)
(***************************************************************************)
EXTENDS Integers, Sequences, FiniteSets, TLC

(***************************************************************************)
(* Natural numbers of any width.                                           *)
(***************************************************************************)
RECURSIVE Norm(_)
Norm(n) ==
  IF Len(n) = 0 THEN <<>>
  ELSE IF n[Len(n)] = 0 THEN Norm(SubSeq(n, 1, Len(n) - 1))
  ELSE n

RECURSIVE NatOfInt(_)
NatOfInt(i) == IF i = 0 THEN <<>> ELSE <<i % 256>> \o NatOfInt(i \div 256)

RECURSIVE IntOfNat(_)
IntOfNat(n) == IF Len(n) = 0 THEN 0 ELSE n[1] + 256 * IntOfNat(Tail(n))

Digit(n, i) == IF i <= Len(n) THEN n[i] ELSE 0

\* Three-way comparison of two naturals: -1, 0 or 1, as uint256's Cmp.
RECURSIVE CmpFrom(_, _, _)
CmpFrom(a, b, i) ==
  IF i = 0 THEN 0
  ELSE IF Digit(a, i) < Digit(b, i) THEN -1
  ELSE IF Digit(a, i) > Digit(b, i) THEN 1
  ELSE CmpFrom(a, b, i - 1)

Cmp(a, b) == CmpFrom(a, b, IF Len(a) > Len(b) THEN Len(a) ELSE Len(b))

RECURSIVE AddC(_, _, _, _, _)
AddC(a, b, i, c, acc) ==
  IF i > Len(a) /\ i > Len(b)
  THEN (IF c = 0 THEN acc ELSE Append(acc, c))
  ELSE LET t == Digit(a, i) + Digit(b, i) + c
       IN  AddC(a, b, i + 1, t \div 256, Append(acc, t % 256))

Add(a, b) == Norm(AddC(a, b, 1, 0, <<>>))

\* a - b for a >= b.
RECURSIVE SubC(_, _, _, _, _)
SubC(a, b, i, c, acc) ==
  IF i > Len(a) THEN acc
  ELSE LET t == a[i] - Digit(b, i) - c
       IN  SubC(a, b, i + 1, IF t < 0 THEN 1 ELSE 0,
                Append(acc, IF t < 0 THEN t + 256 ELSE t))

SubNat(a, b) == Norm(SubC(a, b, 1, 0, <<>>))

\* Schoolbook product: the k-th column sum, then the carries.
RECURSIVE Col(_, _, _, _, _)
Col(a, b, k, i, acc) ==
  IF i > Len(a) \/ i > k THEN acc
  ELSE Col(a, b, k, i + 1, acc + a[i] * b[k + 1 - i])

RECURSIVE MulC(_, _, _, _, _)
MulC(a, b, k, c, acc) ==
  IF k > Len(a) + Len(b) THEN acc
  ELSE LET lo == IF k > Len(b) THEN k + 1 - Len(b) ELSE 1
           t  == Col(a, b, k, lo, 0) + c
       IN  MulC(a, b, k + 1, t \div 256, Append(acc, t % 256))

MulNat(a, b) == Norm(MulC(a, b, 1, 0, <<>>))

\* n * 2^r and n \div 2^r for 0 <= r < 8, digit by digit.
RECURSIVE ShlBits(_, _, _, _, _)
ShlBits(n, r, i, c, acc) ==
  IF i > Len(n) THEN (IF c = 0 THEN acc ELSE Append(acc, c))
  ELSE LET t == n[i] * (2 ^ r) + c
       IN  ShlBits(n, r, i + 1, t \div 256, Append(acc, t % 256))

RECURSIVE ShrBits(_, _, _, _)
ShrBits(n, r, i, acc) ==
  IF i > Len(n) THEN acc
  ELSE ShrBits(n, r, i + 1,
               Append(acc, (n[i] \div (2 ^ r))
                           + (Digit(n, i + 1) % (2 ^ r)) * (2 ^ (8 - r))))

Zeros(k) == [i \in 1..k |-> 0]

Shl(n, k) ==
  IF Len(n) = 0 THEN <<>>
  ELSE Zeros(k \div 8) \o ShlBits(n, k % 8, 1, 0, <<>>)

Shr(n, k) ==
  IF k \div 8 >= Len(n) THEN <<>>
  ELSE Norm(ShrBits(SubSeq(n, (k \div 8) + 1, Len(n)), k % 8, 1, <<>>))

\* The number of bits of n (0 for zero).
RECURSIVE ByteBits(_)
ByteBits(b) == IF b = 0 THEN 0 ELSE 1 + ByteBits(b \div 2)

BitLen(n) == IF Len(n) = 0 THEN 0 ELSE 8 * (Len(n) - 1) + ByteBits(n[Len(n)])

\* n mod 2^k.
LowBits(n, k) ==
  IF k >= 8 * Len(n) THEN n
  ELSE Norm(SubSeq(n, 1, k \div 8)
            \o (IF k % 8 = 0 THEN <<>> ELSE <<n[(k \div 8) + 1] % (2 ^ (k % 8))>>))

IsOdd(n) == Len(n) > 0 /\ n[1] % 2 = 1

Pow2(k) == Shl(<<1>>, k)

\* The largest d in 0..255 with d * D <= r, found bit by bit (r < 256 * D).
RECURSIVE QDigit(_, _, _, _)
QDigit(r, D, j, d) ==
  IF j < 0 THEN d
  ELSE IF Cmp(MulNat(D, <<d + 2 ^ j>>), r) <= 0
       THEN QDigit(r, D, j - 1, d + 2 ^ j)
       ELSE QDigit(r, D, j - 1, d)

\* Quotient and remainder of N by D > 0, long division one digit of N at a
\* time from the top; st.i is the next digit of N to bring down.
DivStep(N, D, st) ==
  LET Put(r2, d) ==
        [i |-> st.i - 1,
         q |-> <<d>> \o st.q,
         r |-> SubNat(r2, MulNat(D, <<d>>))]
      Down(r2) == Put(r2, QDigit(r2, D, 7, 0))
  IN  Down(Norm(<<N[st.i]>> \o st.r))

RECURSIVE DivLoop(_, _, _)
DivLoop(N, D, st) == IF st.i < 1 THEN st ELSE DivLoop(N, D, DivStep(N, D, st))

DivMod(N, D) ==
  LET Out(st) == [q |-> Norm(st.q), r |-> st.r]
  IN  Out(DivLoop(N, D, [i |-> Len(N), q |-> <<>>, r |-> <<>>]))

(***************************************************************************)
(* uint256.Int: the operations of github.com/holiman/uint256 the sampler   *)
(* calls, on naturals below 2^256.                                         *)
(***************************************************************************)
Reverse(q) == [i \in 1..Len(q) |-> q[Len(q) + 1 - i]]

U256(n) == LowBits(n, 256)

\* z.SetBytes(buf): buf is big-endian; of more than 32 bytes the last 32 count.
SetBytes(buf) ==
  Norm(Reverse(IF Len(buf) > 32 THEN SubSeq(buf, Len(buf) - 31, Len(buf)) ELSE buf))

\* A Go uint64 written as its 8 bytes, most significant first.
Uint64Lit(be) == Norm(Reverse(be))

SetUint64(u) == LowBits(u, 64)

Mul(x, y) == U256(MulNat(x, y))

Rsh(x, n) == Shr(x, n)

\* z.Sub(x, y): x - y modulo 2^256.
Sub(x, y) ==
  IF Cmp(x, y) >= 0 THEN SubNat(x, y) ELSE SubNat(Add(Pow2(256), x), y)

\* z.Uint64(): the low 64 bits.
Uint64(x) == LowBits(x, 64)

\* bintable of uint256's conversion.go: the value of a hexadecimal digit, or
\* badNibble.
badNibble == 255

bintable(ch) ==
  CASE ch = "0" -> 0  [] ch = "1" -> 1  [] ch = "2" -> 2  [] ch = "3" -> 3
    [] ch = "4" -> 4  [] ch = "5" -> 5  [] ch = "6" -> 6  [] ch = "7" -> 7
    [] ch = "8" -> 8  [] ch = "9" -> 9
    [] ch \in {"a", "A"} -> 10  [] ch \in {"b", "B"} -> 11
    [] ch \in {"c", "C"} -> 12  [] ch \in {"d", "D"} -> 13
    [] ch \in {"e", "E"} -> 14  [] ch \in {"f", "F"} -> 15
    [] OTHER -> badNibble

\* checkNumberS: the prefix checks made before any digit is read.
checkNumberS(hex) ==
  IF Len(hex) = 0 THEN "ErrEmptyString"
  ELSE IF Len(hex) < 2 \/ hex[1] # "0" \/ hex[2] \notin {"x", "X"}
       THEN "ErrMissingPrefix"
  ELSE IF Len(hex) = 2 THEN "ErrEmptyNumber"
  ELSE IF Len(hex) > 3 /\ hex[3] = "0" THEN "ErrLeadingZero"
  ELSE "nil"

\* One 64-bit limb of fromHex: the characters from st.ri up to end-1 (positions
\* counted from 0 as in the Go code), left to right; a bad nibble ends the parse
\* and leaves the limb as far as it was read.
fromHexNibble(hex, st) ==
  LET nib == bintable(hex[st.ri + 1])
  IN  IF nib = badNibble
      THEN [ri |-> st.ri, limb |-> st.limb, err |-> "ErrSyntax"]
      ELSE [ri |-> st.ri + 1,
            limb |-> Add(LowBits(Shl(st.limb, 4), 64), NatOfInt(nib)),
            err |-> "nil"]

RECURSIVE fromHexLimb(_, _, _)
fromHexLimb(hex, end, st) ==
  IF st.ri >= end \/ st.err # "nil" THEN st
  ELSE fromHexLimb(hex, end, fromHexNibble(hex, st))

\* The four limbs of fromHex, least significant first, 16 characters each from
\* the end of the string; z is the value read so far.
RECURSIVE fromHexLimbs(_, _, _, _)
fromHexLimbs(hex, i, end, z) ==
  IF i >= 4 THEN [z |-> z, err |-> "nil"]
  ELSE LET Store(start, l, z2) ==
             IF l.err # "nil" THEN [z |-> z2, err |-> l.err]
             ELSE fromHexLimbs(hex, i + 1, start, z2)
           Limb(start, l) == Store(start, l, Add(z, Shl(l.limb, 64 * i)))
           From(start) ==
             Limb(start, fromHexLimb(hex, end, [ri |-> start, limb |-> <<>>,
                                                err |-> "nil"]))
       IN  From(IF end - 16 < 2 THEN 2 ELSE end - 16)

\* z.SetFromHex(hex) on a fresh z: the value z holds afterwards and the error.
SetFromHex(hex) ==
  IF checkNumberS(hex) # "nil" THEN [z |-> <<>>, err |-> checkNumberS(hex)]
  ELSE IF Len(hex) > 66 THEN [z |-> <<>>, err |-> "ErrBig256Range"]
  ELSE fromHexLimbs(hex, 0, Len(hex), <<>>)

(***************************************************************************)
(* binary64 (Go's float64).  A value is [s, m, e]: sign bit s, mantissa m (a *)
(* natural of exactly 53 bits, or zero) and exponent e, standing for        *)
(* (-1)^s * m * 2^e.  Every operation computes the exact result and rounds  *)
(* it to nearest, ties to even.  Infinities, NaN, subnormals and the sign   *)
(* of zero are left out: no input of the model produces them.               *)
(***************************************************************************)
FZero == [s |-> 0, m |-> <<>>, e |-> 0]

\* The binary64 nearest to (-1)^s * n * 2^e.
FRound(s, n, e) ==
  LET Pack(q2, e2) ==
        IF BitLen(q2) = 54 THEN [s |-> s, m |-> Shr(q2, 1), e |-> e2 + 1]
        ELSE [s |-> s, m |-> q2, e |-> e2]
      Up(q, c) == IF c = 1 \/ (c = 0 /\ IsOdd(q)) THEN Add(q, <<1>>) ELSE q
      Cut(sh) ==
        Pack(Up(Shr(n, sh), Cmp(LowBits(n, sh), Pow2(sh - 1))), e + sh)
      Of(L) ==
        IF L = 0 THEN FZero
        ELSE IF L <= 53 THEN [s |-> s, m |-> Shl(n, 53 - L), e |-> e - (53 - L)]
        ELSE Cut(L - 53)
  IN  Of(BitLen(n))

FNeg(a) == IF Len(a.m) = 0 THEN a ELSE [a EXCEPT !.s = 1 - a.s]

\* The exact product and the exact sum, before rounding.
ExactMul(a, b) ==
  [s |-> (a.s + b.s) % 2, m |-> MulNat(a.m, b.m), e |-> a.e + b.e]

ExactAdd(a, b) ==
  LET Sum(na, nb, e0) ==
        IF a.s = b.s THEN [s |-> a.s, m |-> Add(na, nb), e |-> e0]
        ELSE IF Cmp(na, nb) >= 0 THEN [s |-> a.s, m |-> SubNat(na, nb), e |-> e0]
        ELSE [s |-> b.s, m |-> SubNat(nb, na), e |-> e0]
      At(e0) == Sum(Shl(a.m, a.e - e0), Shl(b.m, b.e - e0), e0)
  IN  At(IF a.e < b.e THEN a.e ELSE b.e)

FOf(x) == FRound(x.s, x.m, x.e)

FMul(a, b) == FOf(ExactMul(a, b))

FSub(a, b) == FOf(ExactAdd(a, FNeg(b)))

\* a - b * c rounded once (a fused multiply-subtract).
FMSub(a, b, c) == FOf(ExactAdd(a, FNeg(ExactMul(b, c))))

\* The binary64 nearest to (-1)^s * (N / D) * 2^e: the quotient to at least 55
\* bits, and one more bit that says whether the division left a remainder.
RoundRatio(s, N, D, e) ==
  LET Pack(Q, k) ==
        FRound(s, Add(Shl(Q.q, 1), IF Len(Q.r) = 0 THEN <<>> ELSE <<1>>),
               e - k - 1)
      At(k) == Pack(DivMod(Shl(N, k), D), k)
      Gap(d) == At(IF d > 0 THEN d ELSE 0)
  IN  IF Len(N) = 0 THEN FZero ELSE Gap(56 + BitLen(D) - BitLen(N))

FDiv(a, b) == RoundRatio((a.s + b.s) % 2, a.m, b.m, a.e - b.e)

\* a < b.
FLt(a, b) ==
  LET Neg(d) == Len(d.m) > 0 /\ d.s = 1
  IN  Neg(ExactAdd(a, FNeg(b)))

\* float64(i) for a Go int i.
FromInt(i) == FRound(IF i < 0 THEN 1 ELSE 0, NatOfInt(IF i < 0 THEN -i ELSE i), 0)

\* The integer part of |a| and whether a has a fractional part.
IntPart(a) == IF a.e >= 0 THEN Shl(a.m, a.e) ELSE Shr(a.m, -a.e)

HasFrac(a) == a.e < 0 /\ Len(LowBits(a.m, -a.e)) > 0

\* math.Floor.
Floor(a) ==
  LET Up(n) == IF a.s = 1 /\ HasFrac(a) THEN Add(n, <<1>>) ELSE n
  IN  FRound(a.s, Up(IntPart(a)), 0)

\* int(a): the conversion truncates toward zero.
ToInt(a) == IF a.s = 0 THEN IntOfNat(IntPart(a)) ELSE -IntOfNat(IntPart(a))

\* math.Pow(x, 2): for y = 2 Go's pow squares x's fraction once, with one
\* rounding, and scales by a power of two, which is the rounded product x * x.
Pow(x, y) == IF y = 2 THEN FMul(x, x) ELSE FZero

\* A decimal literal of the Go source, digits / 10^k: the compiler rounds the
\* exact value to the nearest binary64.
RECURSIVE DecNat(_, _)
DecNat(digits, st) ==
  IF st.i > Len(digits) THEN st.n
  ELSE DecNat(digits, [i |-> st.i + 1,
                       n |-> Add(MulNat(st.n, <<10>>), NatOfInt(digits[st.i]))])

RECURSIVE Pow10(_)
Pow10(st) ==
  IF st.k = 0 THEN st.n
  ELSE Pow10([k |-> st.k - 1, n |-> MulNat(st.n, <<10>>)])

Dec(s, digits, k) ==
  RoundRatio(s, DecNat(digits, [i |-> 1, n |-> <<>>]),
             Pow10([k |-> k, n |-> <<1>>]), 0)

\* 2^k as a binary64.
FPow2(k) == FRound(0, <<1>>, k)

(***************************************************************************)
(* src/util.go                                                             *)
(***************************************************************************)
\* NewBigNumFromHex drops the error SetFromHex returns and keeps what z holds.
NewBigNumFromHex(s) == SetFromHex(s).z

NewBigNumFromInt(i) == SetUint64(i)

(***************************************************************************)
(* src/samplerz.go: constants and tables                                   *)
(***************************************************************************)
RCDTprec == 72

RCDTprecLen == RCDTprec \div 8

RCDT == <<
  NewBigNumFromHex(<<"0","x","A","3","F","7","F","4","2","E","D","3","A","C","3","9","1","8","0","2">>),
  NewBigNumFromHex(<<"0","x","5","4","D","3","2","B","1","8","1","F","3","F","7","D","D","B","8","2">>),
  NewBigNumFromHex(<<"0","x","2","2","7","D","C","D","D","0","9","3","4","8","2","9","C","1","F","F">>),
  NewBigNumFromHex(<<"0","x","A","D","1","7","5","4","3","7","7","C","7","9","9","4","A","E","4">>),
  NewBigNumFromHex(<<"0","x","2","9","5","8","4","6","C","A","E","F","3","3","F","1","F","6","F">>),
  NewBigNumFromHex(<<"0","x","7","7","4","A","C","7","5","4","E","D","7","4","B","D","5","F">>),
  NewBigNumFromHex(<<"0","x","1","0","2","4","D","D","5","4","2","B","7","7","6","A","E","4">>),
  NewBigNumFromHex(<<"0","x","1","A","1","F","F","D","C","6","5","A","D","6","3","D","A">>),
  NewBigNumFromHex(<<"0","x","1","F","8","0","D","8","8","A","7","B","6","4","y","2","8">>),
  NewBigNumFromHex(<<"0","x","1","C","3","F","D","B","2","0","4","0","C","6","9">>),
  NewBigNumFromHex(<<"0","x","1","2","C","F","2","4","D","0","3","1","F","B">>),
  NewBigNumFromHex(<<"0","x","9","4","9","F","8","B","0","9","1","F">>),
  NewBigNumFromHex(<<"0","x","3","6","6","5","D","A","9","9","8">>),
  NewBigNumFromHex(<<"0","x","E","B","F","6","E","B","B">>),
  NewBigNumFromHex(<<"0","x","2","F","5","D","7","E">>),
  NewBigNumFromHex(<<"0","x","7","0","9","8">>),
  NewBigNumFromHex(<<"0","x","C","6">>),
  NewBigNumFromHex(<<"0","x","1">>)
>>

C == <<
  NewBigNumFromInt(Uint64Lit(<<\h00, \h00, \h00, \h04, \h74, \h11, \h83, \hA3>>)),
  NewBigNumFromInt(Uint64Lit(<<\h00, \h00, \h00, \h36, \h54, \h8C, \hFC, \h06>>)),
  NewBigNumFromInt(Uint64Lit(<<\h00, \h00, \h02, \h4F, \hDC, \hBF, \h14, \h0A>>)),
  NewBigNumFromInt(Uint64Lit(<<\h00, \h00, \h17, \h1D, \h93, \h9D, \hE0, \h45>>)),
  NewBigNumFromInt(Uint64Lit(<<\h00, \h00, \hD0, \h0C, \hF5, \h8F, \h6F, \h84>>)),
  NewBigNumFromInt(Uint64Lit(<<\h00, \h06, \h80, \h68, \h1C, \hF7, \h96, \hE3>>)),
  NewBigNumFromInt(Uint64Lit(<<\h00, \h2D, \h82, \hD8, \h30, \h5B, \h0F, \hEA>>)),
  NewBigNumFromInt(Uint64Lit(<<\h01, \h11, \h11, \h11, \h0E, \h06, \h6F, \hD0>>)),
  NewBigNumFromInt(Uint64Lit(<<\h05, \h55, \h55, \h55, \h55, \h07, \h0F, \h00>>)),
  NewBigNumFromInt(Uint64Lit(<<\h15, \h55, \h55, \h55, \h55, \h81, \hFF, \h00>>)),
  NewBigNumFromInt(Uint64Lit(<<\h40, \h00, \h00, \h00, \h00, \h02, \hB4, \h00>>)),
  NewBigNumFromInt(Uint64Lit(<<\h7F, \hFF, \hFF, \hFF, \hFF, \hFF, \h48, \h00>>)),
  NewBigNumFromInt(Uint64Lit(<<\h80, \h00, \h00, \h00, \h00, \h00, \h00, \h00>>))
>>

\* inv2sigma2, LN2 and ILN2, with the digits of the source literals.
inv2sigma2 == Dec(0, <<1,5,0,8,6,5,0,4,8,8,7,5,3,7,2,7,2>>, 17)

LN2 == Dec(0, <<6,9,3,1,4,7,1,8,0,5,6>>, 11)

ILN2 == Dec(0, <<1,4,4,2,6,9,5,0,4,0,8,9>>, 11)

(***************************************************************************)
(* What the Go specification leaves to the build.  A float64 to uint64     *)
(* conversion of a value uint64 cannot hold "succeeds but the result value *)
(* is implementation-dependent", and "an implementation may combine        *)
(* multiple floating-point operations into a single fused operation".      *)
(* Two builds are modelled: "amd64" (conversion through the signed         *)
(* truncating instruction, no fusing) and "arm64" (saturating conversion,  *)
(* x - y*z fused).                                                         *)
(***************************************************************************)
Builds == {"amd64", "arm64"}

\* uint64(f).
ToUint64(f, build) ==
  LET v == IntPart(f)
  IN  IF f.s = 0 /\ BitLen(v) <= 64 THEN v
      ELSE IF build = "arm64" THEN (IF f.s = 1 THEN <<>> ELSE SubNat(Pow2(64), <<1>>))
      ELSE IF f.s = 1 /\ BitLen(v) <= 63 THEN LowBits(SubNat(Pow2(64), v), 64)
      ELSE Pow2(63)

\* x - y*z as the build computes it.
SubMul(x, y, z, build) ==
  IF build = "arm64" THEN FMSub(x, y, z) ELSE FSub(x, FMul(y, z))

(***************************************************************************)
(* src/samplerz.go: the sampler                                            *)
(***************************************************************************)
\* newsampler: two zero scratch integers and three zeroed buffers.
newsampler ==
  [y |-> <<>>, z |-> <<>>,
   baseSamplerRB |-> Zeros(RCDTprecLen),
   samplerzRB |-> Zeros(1),
   berexpRB |-> Zeros(1)]

\* read dropping the error of io.ReadFull.
readNoPanic(dst, data) ==
  [buf   |-> data \o SubSeq(dst, Len(data) + 1, Len(dst)),
   panic |-> FALSE]

\* read(dst) when the source delivers `data` (at most Len(dst) bytes) before it
\* ends or fails: io.ReadFull stores what it got at the front of dst and
\* reports an error when that is less than Len(dst), and read panics on it.
read(dst, data) ==
  [buf   |-> data \o SubSeq(dst, Len(data) + 1, Len(dst)),
   panic |-> Len(data) < Len(dst)]

\* baseSampler's scan leaving at the first entry that u does not fall below.
RECURSIVE baseSamplerLoopBreak(_, _, _)
baseSamplerLoopBreak(u, i, z0) ==
  IF i > Len(RCDT) \/ Cmp(u, RCDT[i]) # -1 THEN z0
  ELSE baseSamplerLoopBreak(u, i + 1, z0 + 1)

\* The loop of baseSampler over RCDT[i..], in table order.
RECURSIVE baseSamplerLoop(_, _, _)
baseSamplerLoop(u, i, z0) ==
  LET Scan(T) ==
        IF i > Len(T) THEN z0
        ELSE baseSamplerLoop(u, i + 1, IF Cmp(u, T[i]) = -1 THEN z0 + 1 ELSE z0)
  IN  Scan(RCDT)

\* baseSampler adding the bytes read to what y held.
baseSamplerKeepY(sp, data) ==
  LET Scan(sp2) ==
        [sp |-> sp2, panic |-> FALSE, z0 |-> baseSamplerLoop(sp2.y, 1, 0)]
      Filled(rd, sp1) ==
        IF rd.panic THEN [sp |-> sp1, panic |-> TRUE, z0 |-> 0]
        ELSE Scan([sp1 EXCEPT !.y = U256(Add(sp1.y, SetBytes(sp1.baseSamplerRB)))])
      Got(rd) == Filled(rd, [sp EXCEPT !.baseSamplerRB = rd.buf])
  IN  Got(read(sp.baseSamplerRB, data))

\* baseSampler: u is sp.y.
baseSampler(sp, data) ==
  LET Scan(sp2) ==
        [sp |-> sp2, panic |-> FALSE, z0 |-> baseSamplerLoop(sp2.y, 1, 0)]
      Filled(rd, sp1) ==
        IF rd.panic THEN [sp |-> sp1, panic |-> TRUE, z0 |-> 0]
        ELSE Scan([sp1 EXCEPT !.y = SetBytes(sp1.baseSamplerRB)])
      Got(rd) == Filled(rd, [sp EXCEPT !.baseSamplerRB = rd.buf])
  IN  Got(read(sp.baseSamplerRB, data))

\* One round of the loop of approxexp: y = elt - ((y * z) >> 63).
approxexpIter(st) ==
  [i  |-> st.i + 1,
   sp |-> [st.sp EXCEPT !.y = Sub(C[st.i], Rsh(Mul(st.sp.y, st.sp.z), 63))]]

RECURSIVE approxexpLoop(_)
approxexpLoop(st) ==
  IF st.i > Len(C) THEN st ELSE approxexpLoop(approxexpIter(st))

\* approxexp(x, ccs): the sampler afterwards and the value returned.
approxexp(sp, x, ccs, build) ==
  LET sp1 == [sp EXCEPT !.y = C[1]]
      sp2 == [sp1 EXCEPT !.z = SetUint64(ToUint64(FMul(x, FPow2(63)), build))]
      sp3 == approxexpLoop([i |-> 2, sp |-> sp2]).sp
      sp4 == [sp3 EXCEPT !.z = SetUint64(ToUint64(FMul(ccs, FPow2(64)), build))]
      Last(s4) == [s4 EXCEPT !.y = Rsh(Mul(s4.z, s4.y), 63)]
      Ret(s5) == [sp |-> s5, ret |-> Uint64(s5.y)]
  IN  Ret(Last(sp4))

Min(a, b) == IF FLt(a, b) THEN a ELSE b

\* (a - b) in uint64 arithmetic.
SubU64(a, b) ==
  IF Cmp(a, b) >= 0 THEN SubNat(a, b) ELSE SubNat(Add(Pow2(64), a), b)

\* z >> n for a uint64 z and a shift count n already converted to uint64: a
\* count of 64 or more (so also a negative i converted) gives 0.
RshU64(z, n) == IF n < 0 \/ n >= 64 THEN <<>> ELSE Shr(z, n)

\* berexp up to its loop: s, r, the clamp, and the threshold z.  A negative
\* shift count int(s) is a run-time panic.
berexpEnter(sp, x, ccs, build) ==
  LET Ret(s, r, ae) ==
        [sp |-> ae.sp,
         panic |-> ToInt(s) < 0,
         fr |-> [x |-> x, ccs |-> ccs, s |-> s, r |-> r, a |-> ae.ret,
                 z |-> RshU64(SubU64(ae.ret, <<1>>), ToInt(s)),
                 i |-> 56, w |-> 0]]
      Exp(s0, r) == Ret(Min(s0, FromInt(63)), r, approxexp(sp, r, ccs, build))
      Red(s0) == Exp(s0, SubMul(x, s0, LN2, build))
  IN  Red(Floor(FMul(x, ILN2)))

\* berexp comparing against the bytes of z from the least significant up.
berexpRoundLSB(sp, fr, data) ==
  LET rd  == read(sp.berexpRB, data)
      sp1 == [sp EXCEPT !.berexpRB = rd.buf]
      p   == sp1.berexpRB[1]
      w   == p - Digit(RshU64(fr.z, 56 - fr.i), 1)
  IN  IF rd.panic THEN [sp |-> sp1, panic |-> TRUE, fr |-> fr, done |-> FALSE]
      ELSE IF w # 0
      THEN [sp |-> sp1, panic |-> FALSE, fr |-> [fr EXCEPT !.w = w], done |-> TRUE]
      ELSE [sp |-> sp1, panic |-> FALSE,
            fr |-> [fr EXCEPT !.w = w, !.i = fr.i - 8],
            done |-> ~(fr.i - 8 >= -8)]

\* One round of the loop of berexp, the source delivering `data` to the read:
\* the round's w, and whether the loop is left (by the break or by its
\* condition i >= -8 failing for the next i).
berexpRound(sp, fr, data) ==
  LET rd  == read(sp.berexpRB, data)
      sp1 == [sp EXCEPT !.berexpRB = rd.buf]
      p   == sp1.berexpRB[1]
      w   == p - Digit(RshU64(fr.z, fr.i), 1)
  IN  IF rd.panic THEN [sp |-> sp1, panic |-> TRUE, fr |-> fr, done |-> FALSE]
      ELSE IF w # 0
      THEN [sp |-> sp1, panic |-> FALSE, fr |-> [fr EXCEPT !.w = w], done |-> TRUE]
      ELSE [sp |-> sp1, panic |-> FALSE,
            fr |-> [fr EXCEPT !.w = w, !.i = fr.i - 8],
            done |-> ~(fr.i - 8 >= -8)]

\* Samplerz before its loop.
SamplerzEnter(mu, sigma, sigmin) ==
  LET At(s) ==
        [s   |-> s,
         r   |-> FSub(mu, FromInt(s)),
         dss |-> FDiv(FromInt(1), FMul(FMul(FromInt(2), sigma), sigma)),
         ccs |-> FDiv(sigmin, sigma),
         z0 |-> 0, b |-> 0, z |-> FZero, x |-> FZero]
  IN  At(ToInt(Floor(mu)))

\* Samplerz taking the sign from the high bit of the byte read.
SamplerzSignHigh(sp, fr, data, build) ==
  LET X(z) ==
        SubMul(FMul(Pow(FSub(z, fr.r), 2), fr.dss),
               Pow(FromInt(fr.z0), 2), inv2sigma2, build)
      Set(sp1, b, z) ==
        [sp |-> sp1, panic |-> FALSE,
         fr |-> [fr EXCEPT !.b = b, !.z = z, !.x = X(z)]]
      Sign(sp1, b) == Set(sp1, b, FromInt(b + (2 * b - 1) * fr.z0))
      Filled(rd, sp1) ==
        IF rd.panic THEN [sp |-> sp1, panic |-> TRUE, fr |-> fr]
        ELSE Sign(sp1, sp1.samplerzRB[1] \div 128)
      Got(rd) == Filled(rd, [sp EXCEPT !.samplerzRB = rd.buf])
  IN  Got(read(sp.samplerzRB, data))

\* Samplerz from the read of the sign byte to the call of berexp: b, z and x.
SamplerzSign(sp, fr, data, build) ==
  LET X(z) ==
        SubMul(FMul(Pow(FSub(z, fr.r), 2), fr.dss),
               Pow(FromInt(fr.z0), 2), inv2sigma2, build)
      Set(sp1, b, z) ==
        [sp |-> sp1, panic |-> FALSE,
         fr |-> [fr EXCEPT !.b = b, !.z = z, !.x = X(z)]]
      Sign(sp1, b) == Set(sp1, b, FromInt(b + (2 * b - 1) * fr.z0))
      Filled(rd, sp1) ==
        IF rd.panic THEN [sp |-> sp1, panic |-> TRUE, fr |-> fr]
        ELSE Sign(sp1, sp1.samplerzRB[1] % 2)
      Got(rd) == Filled(rd, [sp EXCEPT !.samplerzRB = rd.buf])
  IN  Got(read(sp.samplerzRB, data))

(***************************************************************************)
(* A whole Samplerz call on a given byte stream: the steps above, run to   *)
(* the return or to the panic of a read the stream cannot fill.            *)
(***************************************************************************)
\* What the source delivers to a read of n bytes at offset pos of the stream.
Deliver(stream, pos, n) ==
  SubSeq(stream, pos + 1, IF pos + n <= Len(stream) THEN pos + n ELSE Len(stream))

berexpRun(stream, st) ==
  LET Out(data, r) ==
        [sp |-> r.sp, fr |-> r.fr, pos |-> st.pos + Len(data),
         done |-> r.done, panic |-> r.panic]
      In(data) == Out(data, berexpRound(st.sp, st.fr, data))
  IN  In(Deliver(stream, st.pos, 1))

RECURSIVE berexpLoop(_, _)
berexpLoop(stream, st) ==
  IF st.done \/ st.panic THEN st ELSE berexpLoop(stream, berexpRun(stream, st))

\* berexp's result, and the value Samplerz returns when berexp accepted.
berexpReturn(bfr) == bfr.w < 0

\* Samplerz returning the unsigned draw.
SamplerzReturnZ0(fr) == fr.s + fr.z0

SamplerzReturn(fr) == fr.s + ToInt(fr.z)

\* One round of the loop of Samplerz from offset st.pos.
SamplerzRound(stream, build, st) ==
  LET Fin(sg, lp) ==
        [sp |-> lp.sp, fr |-> sg.fr, pos |-> lp.pos, panic |-> lp.panic,
         done |-> ~lp.panic /\ berexpReturn(lp.fr),
         ret |-> IF ~lp.panic /\ berexpReturn(lp.fr) THEN SamplerzReturn(sg.fr)
                 ELSE st.ret]
      Ber(sg, be, pos) ==
        Fin(sg, berexpLoop(stream, [sp |-> be.sp, fr |-> be.fr, pos |-> pos,
                                    done |-> FALSE, panic |-> be.panic]))
      Sign(sg, pos) ==
        IF sg.panic THEN [st EXCEPT !.sp = sg.sp, !.pos = pos, !.panic = TRUE]
        ELSE Ber(sg, berexpEnter(sg.sp, sg.fr.x, sg.fr.ccs, build), pos)
      Base(bs, d9, d1) ==
        IF bs.panic
        THEN [st EXCEPT !.sp = bs.sp, !.pos = st.pos + Len(d9), !.panic = TRUE]
        ELSE Sign(SamplerzSign(bs.sp, [st.fr EXCEPT !.z0 = bs.z0], d1, build),
                  st.pos + Len(d9) + Len(d1))
      Nine(d9) ==
        Base(baseSampler(st.sp, d9), d9, Deliver(stream, st.pos + Len(d9), 1))
  IN  Nine(Deliver(stream, st.pos, RCDTprecLen))

RECURSIVE SamplerzLoop(_, _, _)
SamplerzLoop(stream, build, st) ==
  IF st.done \/ st.panic THEN st
  ELSE SamplerzLoop(stream, build, SamplerzRound(stream, build, st))

\* Samplerz(mu, sigma, sigmin) on sampler sp reading `stream`: whether it
\* returned (done) or panicked, the value returned, the bytes consumed (pos).
Samplerz(sp, mu, sigma, sigmin, stream, build) ==
  SamplerzLoop(stream, build,
               [sp |-> sp, fr |-> SamplerzEnter(mu, sigma, sigmin), pos |-> 0,
                panic |-> FALSE, done |-> FALSE, ret |-> 0])

(***************************************************************************)
(* The state machine.  One action runs the code from one read of the       *)
(* source to the next: the reads are the only points where the program     *)
(* waits.                                                                  *)
(***************************************************************************)
VARIABLES
  build,      \* the build of the program, fixed for a run
  arg,        \* the arguments of the calls: [mu, sigma, sigmin, x, ccs]
  sp,         \* the sampler: scratch integers y, z and the three buffers
  rng,        \* the source behind sp.rng
  pc,         \* "idle", "base", "sign", "ber" or "panic"
  top,        \* the function called from outside that is running or ran last
  fr,         \* the locals of Samplerz
  bfr,        \* the locals of berexp
  ret,        \* what the last call returned
  consumed,   \* the bytes the source has delivered to the running call, in order
  iterStart,  \* Len(consumed) when the running round of Samplerz's loop began
  berStart,   \* Len(consumed) when the running berexp was entered
  iters       \* rounds of Samplerz's loop and direct calls begun so far

vars ==
  <<build, arg, sp, rng, pc, top, fr, bfr, ret, consumed, iterStart, berStart,
    iters>>

\* The bound on iters.
MaxIter == 2

NoRet == [kind |-> "none", int |-> 0, nat |-> <<>>, bool |-> FALSE]

IntRet(top_, i) == [NoRet EXCEPT !.kind = top_, !.int = i]

NatRet(top_, n) == [NoRet EXCEPT !.kind = top_, !.nat = n]

BoolRet(top_, b) == [NoRet EXCEPT !.kind = top_, !.bool = b]

fr0 ==
  [s |-> 0, r |-> FZero, dss |-> FZero, ccs |-> FZero,
   z0 |-> 0, b |-> 0, z |-> FZero, x |-> FZero]

bfr0 ==
  [x |-> FZero, ccs |-> FZero, s |-> FZero, r |-> FZero, a |-> <<>>,
   z |-> <<>>, i |-> 56, w |-> 0]

(***************************************************************************)
(* The inputs.                                                             *)
(***************************************************************************)
Bytes9(first, rest) == <<first>> \o [i \in 1..(RCDTprecLen - 1) |-> rest]

\* A natural below 2^72 as the 9 bytes of a read, most significant first.
BE9(n) == Reverse(n \o Zeros(RCDTprecLen - Len(n)))

\* 72-bit inputs of the main specification: u = 0, u = 2^72 - 1, and one u
\* between RCDT[2] and RCDT[1] (counting from 0).
BaseInputs == {Bytes9(0, 0), Bytes9(255, 255), Bytes9(48, 7)}

\* 72-bit inputs around every table entry: RCDT[i] - 1, RCDT[i], RCDT[i] + 1,
\* and the extremes.
BaseEdgeInputs ==
  UNION {{BE9(SubNat(RCDT[i], <<1>>)), BE9(RCDT[i]), BE9(Add(RCDT[i], <<1>>))}
         : i \in 1..Len(RCDT)}
  \cup {Bytes9(0, 0), Bytes9(255, 255)}

SignInputs == {<<1>>, <<254>>}

\* Bytes for berexp's reads: the extremes and, in a direct call of berexp, the
\* byte of the threshold at the offset compared and its neighbours.
BerInputs ==
  LET zb == Digit(RshU64(bfr.z, bfr.i), 1)
  IN  {<<0>>, <<255>>}
      \cup (IF top = "berexp"
            THEN {<<b>> : b \in {zb - 1, zb, zb + 1} \cap 0..255}
            ELSE {})

\* What a source that has not ended can deliver to a read: the inputs of the
\* site, or less than was asked for when it fails.
LiveInputs(site) ==
  CASE site = "base" -> BaseInputs \cup {<<>>, <<7, 7, 7, 7>>}
    [] site = "sign" -> SignInputs \cup {<<>>}
    [] site = "ber"  -> BerInputs \cup {<<>>}

\* The source: bytes still held by a finite reader (bytesReader), or a live
\* stream whose bytes are drawn as they are read.  failed: a read was not
\* filled.
LiveRng == [pending |-> <<>>, live |-> TRUE, failed |-> FALSE]

FiniteRng(b) == [pending |-> b, live |-> FALSE, failed |-> FALSE]

Deliveries(dst, site) ==
  IF rng.live THEN LiveInputs(site) ELSE {Deliver(rng.pending, 0, Len(dst))}

rngAfter(dst, data) ==
  [rng EXCEPT !.pending = SubSeq(@, Len(data) + 1, Len(@)),
              !.failed = @ \/ Len(data) < Len(dst)]

\* Arguments.  mu, sigma, sigmin: a row of the Falcon sampler's test vectors
\* and a centre that is an integer; all with 1 < sigmin < sigma < 1.8205.
Arg(mu, sigma, sigmin, x, ccs) ==
  [mu |-> mu, sigma |-> sigma, sigmin |-> sigmin, x |-> x, ccs |-> ccs]

SamplerzArgs ==
  {Arg(Dec(1, <<9,1,9,0,4,7,1,1,5,3,0,6,3,7,1,4>>, 14),
       Dec(0, <<1,7,0,3,7,9,9,0,4,1,4,7,5,4,9,1,8>>, 16),
       Dec(0, <<1,2,7,7,8,3,3,6,9,6,9,1,2,8,3,3,7>>, 16), FZero, FZero),
   Arg(FromInt(3), Dec(0, <<1,5>>, 1), Dec(0, <<1,2,5>>, 2), FZero, FZero)}

\* x and ccs for approxexp: x in [0, ln 2], ccs in [0, 1].
ExpXs == {FZero, LN2, Dec(0, <<5>>, 1), Dec(0, <<2,5>>, 2), FPow2(-30)}

ExpCcs == {FromInt(1), Dec(0, <<5>>, 1), Dec(0, <<7,5>>, 2), FPow2(-10),
           Dec(0, <<7,5>>, 2)}

ExpArgs == {Arg(FZero, FZero, FZero, x, ccs) : x \in ExpXs, ccs \in ExpCcs}

\* x and ccs for berexp: x >= 0 up to beyond 63 * ln 2, ccs in [0, 1].
BerXs == {FZero, Dec(0, <<5>>, 1), FromInt(1), FromInt(5), FromInt(44),
          FromInt(50)}

BerCcs == {Dec(0, <<5>>, 1), Dec(0, <<7,5>>, 2), FPow2(-10)}

BerArgs == {Arg(FZero, FZero, FZero, x, ccs) : x \in BerXs, ccs \in BerCcs}

NoArg == Arg(FZero, FZero, FZero, FZero, FZero)

(***************************************************************************)
(* The actions.                                                            *)
(***************************************************************************)
\* Samplerz(mu, sigma, sigmin) is called: lines 190-193.
CallSamplerz ==
  /\ pc = "idle" /\ iters < MaxIter
  /\ pc' = "base" /\ top' = "Samplerz"
  /\ fr' = SamplerzEnter(arg.mu, arg.sigma, arg.sigmin)
  /\ ret' = NoRet /\ consumed' = <<>> /\ iterStart' = 0 /\ berStart' = 0
  /\ UNCHANGED <<build, arg, sp, rng, bfr, iters>>

\* baseSampler() is called directly.
CallBaseSampler ==
  /\ pc = "idle" /\ iters < MaxIter
  /\ pc' = "base" /\ top' = "baseSampler"
  /\ ret' = NoRet /\ consumed' = <<>> /\ iterStart' = 0 /\ berStart' = 0
  /\ UNCHANGED <<build, arg, sp, rng, fr, bfr, iters>>

\* approxexp(x, ccs) is called directly: it reads nothing and returns.
CallApproxexp ==
  /\ pc = "idle" /\ iters < MaxIter
  /\ \E ae \in {approxexp(sp, arg.x, arg.ccs, build)} :
       /\ sp' = ae.sp
       /\ ret' = NatRet("approxexp", ae.ret)
  /\ top' = "approxexp" /\ iters' = iters + 1
  /\ consumed' = <<>> /\ iterStart' = 0 /\ berStart' = 0
  /\ UNCHANGED <<build, arg, rng, pc, fr, bfr>>

\* berexp(x, ccs) is called directly: lines 159-163, up to the first read.
CallBerexp ==
  /\ pc = "idle" /\ iters < MaxIter
  /\ \E be \in {berexpEnter(sp, arg.x, arg.ccs, build)} :
       /\ sp' = be.sp
       /\ bfr' = be.fr
       /\ pc' = IF be.panic THEN "panic" ELSE "ber"
  /\ top' = "berexp" /\ iters' = iters + 1
  /\ ret' = NoRet /\ consumed' = <<>> /\ iterStart' = 0 /\ berStart' = 0
  /\ UNCHANGED <<build, arg, rng, fr>>

\* baseSampler: the read of 9 bytes and the table scan (lines 105-117), in
\* Samplerz's loop (line 195) or called directly.
BaseRead ==
  /\ pc = "base" /\ iters < MaxIter
  /\ \E data \in Deliveries(sp.baseSamplerRB, "base") :
     \E bs \in {baseSampler(sp, data)} :
       /\ sp' = bs.sp
       /\ rng' = rngAfter(sp.baseSamplerRB, data)
       /\ consumed' = consumed \o data
       /\ IF bs.panic
          THEN pc' = "panic" /\ ret' = ret /\ fr' = fr
          ELSE IF top = "baseSampler"
          THEN pc' = "idle" /\ ret' = IntRet(top, bs.z0) /\ fr' = fr
          ELSE pc' = "sign" /\ ret' = ret /\ fr' = [fr EXCEPT !.z0 = bs.z0]
  /\ iters' = iters + 1
  /\ UNCHANGED <<build, arg, top, bfr, iterStart, berStart>>

\* Samplerz: the read of the sign byte, z and x (lines 196-201), and berexp
\* up to its first read (lines 159-163).
SignRead ==
  /\ pc = "sign"
  /\ \E data \in Deliveries(sp.samplerzRB, "sign") :
     \E sg \in {SamplerzSign(sp, fr, data, build)} :
       /\ rng' = rngAfter(sp.samplerzRB, data)
       /\ consumed' = consumed \o data
       /\ berStart' = Len(consumed) + Len(data)
       /\ IF sg.panic
          THEN pc' = "panic" /\ sp' = sg.sp /\ fr' = fr /\ bfr' = bfr
          ELSE \E be \in {berexpEnter(sg.sp, sg.fr.x, sg.fr.ccs, build)} :
                 /\ sp' = be.sp /\ fr' = sg.fr /\ bfr' = be.fr
                 /\ pc' = IF be.panic THEN "panic" ELSE "ber"
  /\ UNCHANGED <<build, arg, top, ret, iterStart, iters>>

\* berexp: one round of its loop (lines 164-171); when the loop is left, its
\* return (line 172) and, in Samplerz, lines 202-205.
BerRead ==
  /\ pc = "ber"
  /\ \E data \in Deliveries(sp.berexpRB, "ber") :
     \E rd \in {berexpRound(sp, bfr, data)} :
       /\ sp' = rd.sp
       /\ bfr' = rd.fr
       /\ rng' = rngAfter(sp.berexpRB, data)
       /\ consumed' = consumed \o data
       /\ IF rd.panic
          THEN pc' = "panic" /\ ret' = ret /\ iterStart' = iterStart
          ELSE IF ~rd.done
          THEN pc' = "ber" /\ ret' = ret /\ iterStart' = iterStart
          ELSE IF top = "berexp"
          THEN /\ pc' = "idle" /\ iterStart' = iterStart
               /\ ret' = BoolRet(top, berexpReturn(rd.fr))
          ELSE IF berexpReturn(rd.fr)
          THEN /\ pc' = "idle" /\ iterStart' = iterStart
               /\ ret' = IntRet(top, SamplerzReturn(fr))
          ELSE /\ pc' = "base" /\ ret' = ret
               /\ iterStart' = Len(consumed) + Len(data)
  /\ UNCHANGED <<build, arg, top, fr, berStart, iters>>

(***************************************************************************)
(* The specifications.                                                     *)
(***************************************************************************)
InitCommon ==
  /\ sp = newsampler /\ pc = "idle" /\ top = "none"
  /\ fr = fr0 /\ bfr = bfr0 /\ ret = NoRet
  /\ consumed = <<>> /\ iterStart = 0 /\ berStart = 0 /\ iters = 0

\* Samplerz on a fresh sampler over a live source.
Init ==
  /\ InitCommon
  /\ build \in Builds /\ arg \in SamplerzArgs /\ rng = LiveRng

Next == CallSamplerz \/ BaseRead \/ SignRead \/ BerRead

Spec == Init /\ [][Next]_vars

\* baseSampler on a fresh sampler over a finite reader holding 9 bytes.
InitBase ==
  /\ InitCommon
  /\ build = "amd64" /\ arg = NoArg
  /\ rng \in {FiniteRng(b) : b \in BaseEdgeInputs}

NextBase == CallBaseSampler \/ BaseRead

SpecBase == InitBase /\ [][NextBase]_vars

\* approxexp on a fresh sampler.
InitExp ==
  /\ InitCommon
  /\ build \in Builds /\ arg \in ExpArgs /\ rng = LiveRng

NextExp == CallApproxexp

SpecExp == InitExp /\ [][NextExp]_vars

\* berexp on a fresh sampler over a live source.
InitBer ==
  /\ InitCommon
  /\ build \in Builds /\ arg \in BerArgs /\ rng = LiveRng

NextBer == CallBerexp \/ BerRead

SpecBer == InitBer /\ [][NextBer]_vars

(***************************************************************************)
(* The properties.                                                         *)
(***************************************************************************)
\* The value of bytes read most significant first.
BigEndian(b) == Norm(Reverse(b))

\* The number of entries of the table as held that u falls below.
Below(u) == Cardinality({i \in 1..Len(RCDT) : Cmp(u, RCDT[i]) = -1})

\* floor(a) as an integer.
FloorInt(a) ==
  IF a.s = 0 THEN IntOfNat(IntPart(a))
  ELSE -(IntOfNat(IntPart(a)) + (IF HasFrac(a) THEN 1 ELSE 0))

\* The bytes delivered in the running round of Samplerz's loop, and the bytes
\* the running berexp drew.
IterBytes == SubSeq(consumed, iterStart + 1, Len(consumed))

Drawn == SubSeq(consumed, berStart + 1, Len(consumed))

\* The byte of the 64-bit threshold at bit offset 64 - 8k.
ZByte(k) == Digit(bfr.z, 9 - k)

\* The first min(n, 8) bytes drawn, read as a number, are below the same
\* bytes of the threshold.
DrawnLess ==
  \E k \in 1..(IF Len(Drawn) < 8 THEN Len(Drawn) ELSE 8) :
    /\ \A j \in 1..(k - 1) : Drawn[j] = ZByte(j)
    /\ Drawn[k] < ZByte(k)

\* |a - t| < t / 2^k, for naturals a and t.
Within(a, t, k) ==
  Cmp(Shl(IF Cmp(a, t) >= 0 THEN SubNat(a, t) ELSE SubNat(t, a), k), t) = -1

Returned(f) == top = f /\ pc = "idle" /\ ret.kind = f

\* C1: baseSampler returns the number of entries of RCDT, as held, that the
\* 72-bit value of the 9 bytes read falls below, whatever the order of the
\* entries, and so a value in 0..18.
C1_BaseSamplerCounts ==
  Returned("baseSampler") =>
    /\ Len(consumed) = 9
    /\ ret.int = Below(BigEndian(consumed))
    /\ ret.int \in 0..18

\* A draw between the entry the parse cut short and the entry after it: the
\* scan went on past a comparison that failed.
C1_Witness ==
  /\ Returned("baseSampler")
  /\ Cmp(sp.y, RCDT[9]) >= 0 /\ Cmp(sp.y, RCDT[10]) = -1
  /\ ret.int = 9

\* C7: the table as held is strictly decreasing and every entry is below
\* 2^72.
C7_TableDecreasing ==
  pc = "base" =>
    /\ \A i \in 1..(Len(RCDT) - 1) : Cmp(RCDT[i], RCDT[i + 1]) = 1
    /\ \A i \in 1..Len(RCDT) : BitLen(RCDT[i]) <= RCDTprec

\* C6: approxexp(x, ccs) is within 2^-20 of 2^63 * ccs * exp(-x), at x = 0
\* (2^63 * ccs) and at x = ln 2 (2^62 * ccs).
C6_ApproxExpScale ==
  Returned("approxexp") /\ arg.x \in {FZero, LN2} =>
    Within(ret.nat,
           IntPart(FMul(arg.ccs, FPow2(IF arg.x = FZero THEN 63 ELSE 62))),
           20)

\* C8: berexp draws at least 1 and at most 8 bytes, the k-th compared with
\* the byte of z at offset 64 - 8k, and a byte is drawn only when all before
\* it were equal to theirs.
C8_AtMostEightDraws ==
  top = "berexp" /\ pc \in {"ber", "idle"} =>
    /\ Len(Drawn) <= 8
    /\ pc = "idle" => Len(Drawn) >= 1
    /\ \A k \in 1..(Len(Drawn) - 1) : Drawn[k] = ZByte(k)
    /\ pc = "idle" => bfr.w = Drawn[Len(Drawn)] - ZByte(Len(Drawn))

\* C9: berexp returns true exactly when the bytes drawn, most significant
\* first, are below the threshold z: the first byte that differs from z's is
\* smaller; all 8 equal gives false.
C9_BerexpVerdict ==
  Returned("berexp") => (ret.bool <=> DrawnLess)

\* berexp accepted on a byte after the first.
C9_Witness == Returned("berexp") /\ ret.bool /\ Len(Drawn) >= 2

\* C10: the threshold is (2 * A - 1) >> s, A in 1..2^63 the value approxexp
\* returned and s the shift count, in 0..63.
C10_Threshold ==
  top = "berexp" /\ pc = "ber" /\ Len(Drawn) = 0
  /\ Len(bfr.a) > 0 /\ Cmp(bfr.a, Pow2(63)) <= 0 =>
    /\ ToInt(bfr.s) \in 0..63
    /\ bfr.z = Shr(SubNat(Shl(bfr.a, 1), <<1>>), ToInt(bfr.s))

\* C2: Samplerz holds no value until berexp accepts, goes round its loop
\* again only when berexp rejected, and returns floor(mu) + z for the z0 and
\* the sign bit of the round accepted: a value in floor(mu) - 18 ..
\* floor(mu) + 19.
C2_SamplerzReturn ==
  top = "Samplerz" =>
    /\ pc # "idle" => ret = NoRet
    /\ pc = "base" /\ iterStart > 0 => bfr.w >= 0
    /\ pc = "idle" =>
         /\ ret.kind = "Samplerz"
         /\ bfr.w < 0
         /\ ret.int = FloorInt(arg.mu)
                      + (IF IterBytes[10] % 2 = 1
                         THEN Below(BigEndian(SubSeq(IterBytes, 1, 9))) + 1
                         ELSE -Below(BigEndian(SubSeq(IterBytes, 1, 9))))
         /\ ret.int \in (FloorInt(arg.mu) - 18)..(FloorInt(arg.mu) + 19)

\* The largest value, returned by a round that followed a rejected one.
C2_Witness ==
  /\ Returned("Samplerz") /\ iterStart > 0
  /\ ret.int = FloorInt(arg.mu) + 19

\* C3: a read the source does not fill ends the call: the step that meets it
\* leaves the program panicked with no value returned, and no step follows.
C3_AbortOnFailedRead ==
  [][/\ ~rng.failed
     /\ rng'.failed => pc' = "panic" /\ ret' = NoRet]_vars

\* The read of 9 bytes was given 4.
C3_Witness ==
  /\ top = "Samplerz" /\ pc = "panic" /\ rng.failed
  /\ Len(consumed) = iterStart + 4

\* C4: a Samplerz call that returned gives, on a fresh sampler with the same
\* arguments and the same bytes, the same value and consumes as many bytes.
C4_Deterministic ==
  Returned("Samplerz") =>
    \E ref \in {Samplerz(newsampler, arg.mu, arg.sigma, arg.sigmin, consumed,
                         build)} :
      /\ ref.done /\ ~ref.panic
      /\ ref.ret = ret.int
      /\ ref.pos = Len(consumed)

\* A call that returned on a sampler an earlier call had used.
C4_Witness ==
  /\ Returned("Samplerz") /\ iters >= 2 /\ iterStart = 0
  /\ sp.y # newsampler.y

\* C5: a round of Samplerz's loop takes 9 bytes for baseSampler, then 1 byte
\* whose low bit is the sign, then berexp's bytes one at a time, and the next
\* round starts at the byte after the last one berexp drew.
C5_ReadOrder ==
  top = "Samplerz" /\ ~rng.failed =>
    /\ pc = "base" => Len(consumed) = iterStart
    /\ pc = "sign" =>
         /\ Len(consumed) = iterStart + 9
         /\ sp.baseSamplerRB = IterBytes
         /\ fr.z0 = Below(BigEndian(IterBytes))
    /\ pc \in {"ber", "idle"} =>
         /\ berStart = iterStart + 10
         /\ Len(consumed) >= berStart + (IF pc = "idle" THEN 1 ELSE 0)
         /\ sp.baseSamplerRB = SubSeq(IterBytes, 1, 9)
         /\ fr.z0 = Below(BigEndian(SubSeq(IterBytes, 1, 9)))
         /\ sp.samplerzRB = <<IterBytes[10]>>
         /\ fr.b = IterBytes[10] % 2
         /\ Len(Drawn) > 0 => sp.berexpRB = <<Drawn[Len(Drawn)]>>
         /\ pc = "ber" => bfr.i = 56 - 8 * Len(Drawn)

\* The second round of a call, two bytes into berexp.
C5_Witness ==
  top = "Samplerz" /\ pc = "ber" /\ iterStart > 0 /\ Len(Drawn) = 2

====
